---------------------------- MODULE Spec2Model ----------------------------
(***************************************************************************)
(* crypto_balancer: the driver (src/crypto_balancer/main.py) that fans the  *)
(* configured portfolios out over a multiprocessing pool and, per          *)
(* portfolio, validates the targets, connects to the venue, optionally     *)
(* cancels open orders, values the portfolio, runs the executor and        *)
(* reports the result.                                                     *)
(*                                                                         *)
(* The exchange adapter, the portfolio, the balancer and the executor are  *)
(* modules of the repository that main.py imports (lines 11-14); they are  *)
(* modelled from the specification (sections 4.1 to 4.4 and 6).            *)
(***************************************************************************)
EXTENDS Integers, Sequences, FiniteSets, TLC

(***************************************************************************)
(* Bounds of the model.                                                    *)
(***************************************************************************)
MaxOrdersArg == 3
MaxCpu == 2
PoolPortfolios == 2
ChunkedPortfolios == 5

(***************************************************************************)
(* Program constants.                                                      *)
(***************************************************************************)
TargetTotal == 100
DefaultMaxOrders == 5
MaxAttempts == 3

Quote == "USDT"
Assets == {"BTC", "ETH", "USDT"}
Modes == {"mid", "passive", "cheap"}

None == <<>>
Some(x) == <<x>>

RECURSIVE SumOver(_, _)
SumOver(f, S) ==
    IF S = {} THEN 0
    ELSE LET a == CHOOSE x \in S : TRUE
         IN  f[a] + SumOver(f, S \ {a})

Abs(x) == IF x < 0 THEN -x ELSE x
Min(x, y) == IF x < y THEN x ELSE y

(***************************************************************************)
(* The venue's market data: a mid price per asset in the quote currency,   *)
(* with the best bid one below and the best ask one above it.  Ties in the *)
(* planner are broken by the lexical order of the symbols.                 *)
(***************************************************************************)
Price == ("BTC" :> 10) @@ ("ETH" :> 5) @@ ("USDT" :> 1)
Bid(a) == IF a = Quote THEN 1 ELSE Price[a] - 1
Ask(a) == IF a = Quote THEN 1 ELSE Price[a] + 1
AssetRank == ("BTC" :> 1) @@ ("ETH" :> 2) @@ ("USDT" :> 3)

(***************************************************************************)
(* float(b): the strings that parse, with the value they parse to.  Any    *)
(* other token raises ValueError.                                          *)
(***************************************************************************)
FloatTable ==
    ("50" :> 50) @@ ("49" :> 49) @@ ("40" :> 40) @@ ("20" :> 20)

(***************************************************************************)
(* int(max_orders): argparse hands over the default 5 or the string given  *)
(* on the command line, which may be negative or not a number at all.      *)
(***************************************************************************)
MaxOrdersArgs ==
    [isInt : {TRUE}, n : (-1 .. MaxOrdersArg) \cup {DefaultMaxOrders}]
        \cup {[isInt |-> FALSE, n |-> 0]}

(***************************************************************************)
(* Portfolio sections of portfolios.ini together with the state of the     *)
(* venue account each one points at: the targets text (lines of tokens),   *)
(* the threshold, the optional valuebase, the balances held (asset units)  *)
(* and the number of stale open orders.                                    *)
(***************************************************************************)
Targets5050 == << <<"BTC", "50">>, <<"USDT", "50">> >>
Targets404020 == << <<"BTC", "40">>, <<"ETH", "40">>, <<"USDT", "20">> >>
Targets99 == << <<"BTC", "50">>, <<"USDT", "49">> >>
TargetsBadNumber == << <<"BTC", "fifty">>, <<"USDT", "50">> >>
TargetsBadLine == << <<"BTC", "50">>, <<"USDT">> >>
TargetsDuplicate == << <<"BTC", "50">>, <<"BTC", "50">> >>

Bal(btc, eth, usdt) == ("BTC" :> btc) @@ ("ETH" :> eth) @@ ("USDT" :> usdt)

Section(t, vb, b, o) ==
    [targets |-> t, threshold |-> 10, valuebase |-> vb, balances |-> b, open |-> o]

Balanced == Section(Targets5050, "", Bal(5, 0, 50), 0)
AtThreshold == Section(Targets5050, "USDT", Bal(6, 0, 40), 1)
OneOrder == Section(Targets5050, "", Bal(8, 0, 20), 1)
ThreeOrders == Section(Targets404020, "", Bal(8, 2, 10), 2)
Sum99 == Section(Targets99, "", Bal(8, 0, 20), 1)
BadNumber == Section(TargetsBadNumber, "", Bal(8, 0, 20), 1)
BadLine == Section(TargetsBadLine, "", Bal(8, 0, 20), 1)
Duplicate == Section(TargetsDuplicate, "", Bal(8, 0, 20), 1)

Sections ==
    {Balanced, AtThreshold, OneOrder, ThreeOrders, Sum99, BadNumber, BadLine,
     Duplicate}
PoolSections == {OneOrder, ThreeOrders, Sum99, BadNumber}
ChunkedSections == {Balanced, Sum99, BadLine}

(***************************************************************************)
(* Lines 22-35 of balancing: the targets text is split into lines and      *)
(* tokens; a line that does not hold exactly two tokens, or whose second   *)
(* token float() rejects, raises ValueError.  dict() keeps the last value  *)
(* given for a symbol.                                                     *)
(***************************************************************************)
TargetsValid(lines) ==
    \A i \in DOMAIN lines :
        Len(lines[i]) = 2 /\ lines[i][2] \in DOMAIN FloatTable

TargetsDict(lines) ==
    LET names == {lines[i][1] : i \in DOMAIN lines}
        last(a) == CHOOSE i \in DOMAIN lines :
                       /\ lines[i][1] = a
                       /\ \A j \in DOMAIN lines : lines[j][1] = a => j <= i
    IN  [a \in names |-> FloatTable[lines[last(a)][2]]]

TotalTarget(targets) == SumOver(targets, DOMAIN targets)

\* Mutant: a total below 100 is let through.
TotalTargetAtMost(total) == total <= TargetTotal

TotalTargetOk(total) == total = TargetTotal

Valuebase(cfg) == IF cfg.valuebase = "" THEN "USDT" ELSE cfg.valuebase

IntOf(arg) == arg.n

(***************************************************************************)
(* Valuation model and deviation metrics (specification 4.1, 4.2).  A      *)
(* deviation is kept multiplied by the total valuation, so that it stays   *)
(* an integer: DevScaled = (actual_pct - target_pct) * total.              *)
(***************************************************************************)
NewPortfolio(targets, balances, threshold, quote) ==
    [balances |-> [a \in DOMAIN targets |-> balances[a]],
     targets |-> targets, threshold |-> threshold, quote |-> quote]

Value(P, a) == P.balances[a] * Price[a]

Valuation(P) == SumOver([a \in DOMAIN P.balances |-> Value(P, a)], DOMAIN P.balances)

DevScaled(P, a) == 100 * Value(P, a) - P.targets[a] * Valuation(P)

MaxDevScaled(P) ==
    LET devs == {Abs(DevScaled(P, a)) : a \in DOMAIN P.balances}
    IN  CHOOSE d \in devs : \A e \in devs : e <= d

NeedsBalancing(P) ==
    /\ Valuation(P) > 0
    /\ MaxDevScaled(P) > P.threshold * Valuation(P)

(***************************************************************************)
(* Trade planner (specification 4.3).                                      *)
(***************************************************************************)
LimitPrice(side, a, mode) ==
    CASE mode = "mid" -> Price[a]
      [] mode = "passive" -> IF side = "BUY" THEN Bid(a) ELSE Ask(a)
      [] mode = "cheap" -> Price[a]

Fee(order) ==
    CASE order.mode = "mid" -> 2
      [] order.mode = "passive" -> 0
      [] order.mode = "cheap" -> 1

MostDeviating(P, S, sign) ==
    CHOOSE a \in S :
        \A b \in S :
            \/ sign * DevScaled(P, a) > sign * DevScaled(P, b)
            \/ /\ DevScaled(P, a) = DevScaled(P, b)
               /\ AssetRank[a] <= AssetRank[b]

PlanFits(orders, new, maxOrders) == Len(orders) + Len(new) <= maxOrders

\* The pairing of the most over-allocated with the most under-allocated
\* asset, sized in the quote currency and clamped to what is held.
Over(P) == {a \in DOMAIN P.balances : DevScaled(P, a) > 0}
Under(P) == {a \in DOMAIN P.balances : DevScaled(P, a) < 0}

PairingOf(P, s, b) ==
    LET q == Min(DevScaled(P, s), -DevScaled(P, b)) \div 100
    IN  [sell |-> s, buy |-> b,
         sellUnits |-> Min(q \div Price[s], P.balances[s]),
         buyUnits |-> q \div Price[b]]

Pairing(P) ==
    CHOOSE pr \in {PairingOf(P, s, b) : s \in {MostDeviating(P, Over(P), 1)},
                                        b \in {MostDeviating(P, Under(P), -1)}} : TRUE

\* The orders of a pairing: the quote currency itself is not traded, and a
\* buy depends on the proceeds of the sell it is paired with.
PairOrders(pr, mode, placed) ==
    (IF pr.sell = Quote THEN <<>>
     ELSE << [asset |-> pr.sell, side |-> "SELL", amount |-> pr.sellUnits,
              limit_price |-> LimitPrice("SELL", pr.sell, mode),
              mode |-> mode, dep |-> 0] >>)
    \o
    (IF pr.buy = Quote THEN <<>>
     ELSE << [asset |-> pr.buy, side |-> "BUY", amount |-> pr.buyUnits,
              limit_price |-> LimitPrice("BUY", pr.buy, mode),
              mode |-> mode,
              dep |-> IF pr.sell = Quote THEN 0 ELSE placed + 1] >>)

AfterPairing(P, pr) ==
    [P EXCEPT !.balances =
        [a \in DOMAIN P.balances |->
            IF a = pr.sell THEN P.balances[a] - pr.sellUnits
            ELSE IF a = pr.buy THEN P.balances[a] + pr.buyUnits
            ELSE P.balances[a]]]

Improves(P, P2) == MaxDevScaled(P2) * Valuation(P) < MaxDevScaled(P) * Valuation(P2)

Settled(P, stop) ==
    \/ MaxDevScaled(P) <= stop * Valuation(P)
    \/ Over(P) = {}
    \/ Under(P) = {}

RECURSIVE PlanLoop(_, _, _, _, _)
PlanLoop(P, orders, maxOrders, mode, stop) ==
    IF Settled(P, stop)
    THEN [portfolio |-> P, orders |-> orders]
    ELSE LET pr == Pairing(P)
             new == PairOrders(pr, mode, Len(orders))
             P2 == AfterPairing(P, pr)
         IN  IF /\ PlanFits(orders, new, maxOrders)
                /\ pr.sellUnits > 0
                /\ pr.buyUnits > 0
                /\ Improves(P, P2)
             THEN PlanLoop(P2, orders \o new, maxOrders, mode, stop)
             ELSE [portfolio |-> P, orders |-> orders]

Plan(P, maxOrders, mode, stop) ==
    LET r == PlanLoop(P, <<>>, maxOrders, mode, stop)
        fee == SumOver([i \in DOMAIN r.orders |-> Fee(r.orders[i])], DOMAIN r.orders)
        after == [r.portfolio EXCEPT !.balances =
                     [a \in DOMAIN r.portfolio.balances |->
                         IF a = P.quote THEN r.portfolio.balances[a] - fee
                         ELSE r.portfolio.balances[a]]]
    IN  IF r.orders = <<>>
        THEN [proposed |-> None, orders |-> <<>>, total_fee |-> 0]
        ELSE [proposed |-> Some(after), orders |-> r.orders, total_fee |-> fee]

(***************************************************************************)
(* State.                                                                  *)
(*   args       the parsed command line (lines 139-158)                    *)
(*   config     portfolios.ini: section number -> section (lines 136-137)  *)
(*   cpuCount   cpu_count() of the machine                                 *)
(*   mainpc     position of the main process in lines 160-171              *)
(*   alive      live worker processes of the pool                          *)
(*   pc         per portfolio, the position of its balancing() call        *)
(*   exc        per portfolio, the exception its call ended with           *)
(*   connected  per portfolio, whether a CCXTExchange was created          *)
(*   venueBal, venueOpen, venueCalls                                       *)
(*              per portfolio, the venue account: balances, open orders,   *)
(*              and the state-changing calls received                      *)
(*   portfolio  per portfolio, the snapshot made at line 52                *)
(*   res        per portfolio, the executor's result and, per order, its   *)
(*              state, submission attempts and the venue's last answer     *)
(*   log        per portfolio, what the logger was handed                  *)
(***************************************************************************)
VARIABLES args, config, cpuCount, mainpc, alive, pc, exc, connected,
          venueBal, venueOpen, venueCalls, portfolio, res, log

vars == <<args, config, cpuCount, mainpc, alive, pc, exc, connected,
          venueBal, venueOpen, venueCalls, portfolio, res, log>>

AllSections == DOMAIN config

NoResult ==
    [ran |-> FALSE, proposed |-> None, total_fee |-> 0, orders |-> <<>>,
     state |-> <<>>, attempts |-> <<>>, answer |-> <<>>, success |-> <<>>,
     errors |-> <<>>]

Line(msg, n) == [msg |-> msg, n |-> n]

InitWith(cfgs, cpus, argset) ==
    /\ config \in cfgs
    /\ cpuCount \in cpus
    /\ args \in argset
    /\ args.portfolio \subseteq DOMAIN config
    /\ args.portfolio # {}
    /\ mainpc = "pool"
    /\ alive = 0
    /\ pc = [p \in DOMAIN config |-> "idle"]
    /\ exc = [p \in DOMAIN config |-> ""]
    /\ connected = [p \in DOMAIN config |-> FALSE]
    /\ venueBal = [p \in DOMAIN config |-> config[p].balances]
    /\ venueOpen = [p \in DOMAIN config |-> config[p].open]
    /\ venueCalls = [p \in DOMAIN config |-> [cancel |-> 0, submit |-> 0]]
    /\ portfolio = [p \in DOMAIN config |-> None]
    /\ res = [p \in DOMAIN config |-> NoResult]
    /\ log = [p \in DOMAIN config |-> <<>>]

\* One configured portfolio, every combination of the command-line options.
Init ==
    InitWith([{1} -> Sections], {1},
             [trade : BOOLEAN, force : BOOLEAN, cancel : BOOLEAN, mode : Modes,
              max_orders : MaxOrdersArgs, portfolio : {{1}}])

\* Several configured portfolios, of which --portfolio selects some: a few
\* that trade, or, on a machine with one CPU, enough of them for starmap to
\* put two in a chunk.
PoolArgs ==
    [trade : {TRUE}, force : {FALSE}, cancel : {TRUE}, mode : {"mid"},
     max_orders : {[isInt |-> TRUE, n |-> DefaultMaxOrders]},
     portfolio : SUBSET (1 .. PoolPortfolios)]

InitPool ==
    \/ InitWith([1 .. PoolPortfolios -> PoolSections], 1 .. MaxCpu, PoolArgs)
    \/ InitWith([1 .. ChunkedPortfolios -> ChunkedSections], {1}, PoolArgs)

(***************************************************************************)
(* Lines 160-171: the pool.  starmap cuts the zipped argument list into    *)
(* chunks (one task each); a worker runs a chunk's calls in order and      *)
(* posts one result per chunk; the caller is woken when every chunk has    *)
(* posted, and re-raises the first exception posted.  SystemExit is not an *)
(* Exception: it ends the worker process, which posts nothing.             *)
(***************************************************************************)
Dispatched == AllSections

ChunkSize ==
    LET n == Cardinality(Dispatched)
        d == n \div (cpuCount * 4)
    IN  IF n % (cpuCount * 4) > 0 THEN d + 1 ELSE d

ChunkOf(p) == (p - 1) \div ChunkSize

Members(c) == {p \in Dispatched : ChunkOf(p) = c}

Chunks == {ChunkOf(p) : p \in Dispatched}

FirstInChunk(p) == p = 1 \/ ChunkOf(p - 1) # ChunkOf(p)

ChunkOk(c) == \A p \in Members(c) : pc[p] = "returned"
ChunkFailed(c) == \E p \in Members(c) : pc[p] = "raised"
ChunkLost(c) == \E p \in Members(c) : pc[p] = "exited"
ChunkRunning(c) ==
    /\ \E p \in Members(c) : pc[p] # "queued"
    /\ ~ChunkOk(c) /\ ~ChunkFailed(c) /\ ~ChunkLost(c)

Busy == Cardinality({c \in Chunks : ChunkRunning(c)})

CanStart(p) ==
    /\ pc[p] = "queued"
    /\ IF FirstInChunk(p) THEN Busy < alive ELSE pc[p - 1] = "returned"

runvars == <<exc, connected, venueBal, venueOpen, venueCalls, portfolio, res, log>>

CreatePool ==
    /\ mainpc = "pool"
    /\ mainpc' = "starmap"
    /\ alive' = cpuCount
    /\ UNCHANGED <<args, config, cpuCount, pc, runvars>>

Starmap ==
    /\ mainpc = "starmap"
    /\ mainpc' = "wait"
    /\ pc' = [p \in AllSections |-> IF p \in Dispatched THEN "queued" ELSE "idle"]
    /\ UNCHANGED <<args, config, cpuCount, alive, runvars>>

RepopulatePool ==
    /\ mainpc = "wait"
    /\ alive < cpuCount
    /\ alive' = alive + 1
    /\ UNCHANGED <<args, config, cpuCount, mainpc, pc, runvars>>

StarmapReturn ==
    /\ mainpc = "wait"
    /\ \A c \in Chunks : ChunkOk(c)
    /\ mainpc' = "close"
    /\ UNCHANGED <<args, config, cpuCount, alive, pc, runvars>>

StarmapRaise ==
    /\ mainpc = "wait"
    /\ \A c \in Chunks : ChunkOk(c) \/ ChunkFailed(c)
    /\ \E c \in Chunks : ChunkFailed(c)
    /\ mainpc' = "raised"
    /\ UNCHANGED <<args, config, cpuCount, alive, pc, runvars>>

PoolClose ==
    /\ mainpc = "close"
    /\ mainpc' = "done"
    /\ UNCHANGED <<args, config, cpuCount, alive, pc, runvars>>

(***************************************************************************)
(* balancing(), lines 19-123, one call per dispatched portfolio.           *)
(***************************************************************************)
poolvars == <<args, config, cpuCount, mainpc>>

\* Lines 20-33: parse and check the targets.  sys.exit(1) ends the worker.
StartRun(p) ==
    /\ CanStart(p)
    /\ IF ~TargetsValid(config[p].targets)
       THEN /\ log' = [log EXCEPT ![p] = @ \o <<Line("Targets format invalid", 0)>>]
            /\ pc' = [pc EXCEPT ![p] = "exited"]
            /\ exc' = [exc EXCEPT ![p] = "SystemExit"]
            /\ alive' = alive - 1
       ELSE LET total == TotalTarget(TargetsDict(config[p].targets))
            IN  IF ~TotalTargetOk(total)
                THEN /\ log' = [log EXCEPT ![p] =
                                   @ \o <<Line("Total target needs to equal 100", total)>>]
                     /\ pc' = [pc EXCEPT ![p] = "returned"]
                     /\ UNCHANGED <<exc, alive>>
                ELSE /\ pc' = [pc EXCEPT ![p] = "connect"]
                     /\ UNCHANGED <<exc, alive, log>>
    /\ UNCHANGED <<poolvars, connected, venueBal, venueOpen, venueCalls, portfolio, res>>

\* Lines 35-42: the exchange object is created.
Connect(p) ==
    /\ pc[p] = "connect"
    /\ connected' = [connected EXCEPT ![p] = TRUE]
    /\ log' = [log EXCEPT ![p] = @ \o <<Line("Connected to exchange", 0)>>]
    /\ pc' = [pc EXCEPT ![p] = IF args.cancel THEN "cancel" ELSE "value"]
    /\ UNCHANGED <<poolvars, alive, exc, venueBal, venueOpen, venueCalls, portfolio, res>>

\* Lines 44-47: the cancel pre-pass.  The venue either cancels every open
\* order or fails, and nothing in balancing() handles the failure.  The
\* logger.info call of line 47 is handed arguments its message has no
\* placeholders for, so the handler writes no line for a cancelled order.
CancelOrders(p) ==
    /\ pc[p] = "cancel"
    /\ venueCalls' = [venueCalls EXCEPT ![p].cancel = @ + 1]
    /\ log' = [log EXCEPT ![p] = @ \o <<Line("Cancelling open orders...", 0)>>]
    /\ \E venueOk \in BOOLEAN :
          IF venueOk
          THEN /\ venueOpen' = [venueOpen EXCEPT ![p] = 0]
               /\ pc' = [pc EXCEPT ![p] = "value"]
               /\ UNCHANGED exc
          ELSE /\ pc' = [pc EXCEPT ![p] = "raised"]
               /\ exc' = [exc EXCEPT ![p] = "CancelFailed"]
               /\ UNCHANGED venueOpen
    /\ UNCHANGED <<poolvars, alive, connected, venueBal, portfolio, res>>

\* Lines 49-63: int(max_orders), then the snapshot of balances and prices.
MakePortfolio(p) ==
    /\ pc[p] = "value"
    /\ IF ~args.max_orders.isInt
       THEN /\ pc' = [pc EXCEPT ![p] = "raised"]
            /\ exc' = [exc EXCEPT ![p] = "ValueError"]
            /\ UNCHANGED <<portfolio, log>>
       ELSE \E venueOk \in BOOLEAN :
               IF venueOk
               THEN LET P == NewPortfolio(TargetsDict(config[p].targets), venueBal[p],
                                          config[p].threshold, Valuebase(config[p]))
                    IN  /\ portfolio' = [portfolio EXCEPT ![p] = Some(P)]
                        /\ log' = [log EXCEPT ![p] =
                                      @ \o <<Line("Current Portfolio:", 0),
                                             Line("Total value", Valuation(P))>>]
                        /\ pc' = [pc EXCEPT ![p] = "execute"]
                        /\ UNCHANGED exc
               ELSE /\ pc' = [pc EXCEPT ![p] = "raised"]
                    /\ exc' = [exc EXCEPT ![p] = "VenueUnavailable"]
                    /\ UNCHANGED <<portfolio, log>>
    /\ UNCHANGED <<poolvars, alive, connected, venueBal, venueOpen, venueCalls, res>>

(***************************************************************************)
(* Lines 64-69: the executor is run with the driver's options.             *)
(***************************************************************************)
\* Mutant: the cap handed to the executor is one too high.
RunKwargsOffByOne ==
    [force |-> args.force, trade |-> args.trade,
     max_orders |-> IntOf(args.max_orders) + 1, mode |-> args.mode]

RunKwargs ==
    [force |-> args.force, trade |-> args.trade,
     max_orders |-> IntOf(args.max_orders), mode |-> args.mode]

(***************************************************************************)
(* Execution supervisor (specification 4.4).  Without force, a portfolio   *)
(* within its threshold is left untouched.  Otherwise a plan is requested; *)
(* a forced plan pairs until nothing deviates.  When trading, the orders   *)
(* are submitted one at a time in planner order.                           *)
(***************************************************************************)
Terminal == {"FILLED", "REJECTED", "SUBMIT_ERROR"}

Untouched(kw, P) == ~kw.force /\ ~NeedsBalancing(P)

ExecutorRun(p) ==
    /\ pc[p] = "execute"
    /\ LET kw == RunKwargs
           P == portfolio[p][1]
           plan == Plan(P, kw.max_orders, kw.mode, IF kw.force THEN 0 ELSE P.threshold)
       IN  IF Untouched(kw, P)
           THEN /\ res' = [res EXCEPT ![p] = [NoResult EXCEPT !.ran = TRUE]]
                /\ pc' = [pc EXCEPT ![p] = "report"]
           ELSE /\ res' = [res EXCEPT ![p] =
                              [ran |-> TRUE, proposed |-> plan.proposed,
                               total_fee |-> plan.total_fee, orders |-> plan.orders,
                               state |-> [i \in DOMAIN plan.orders |-> "PROPOSED"],
                               attempts |-> [i \in DOMAIN plan.orders |-> 0],
                               answer |-> [i \in DOMAIN plan.orders |-> ""],
                               success |-> <<>>, errors |-> <<>>]]
                /\ pc' = [pc EXCEPT ![p] =
                              IF kw.trade /\ plan.orders # <<>> THEN "submit" ELSE "report"]
    /\ UNCHANGED <<poolvars, alive, exc, connected, venueBal, venueOpen, venueCalls,
                   portfolio, log>>

\* Mutant: every answer but FILLED is retried.
ShouldRetryAnyFailure(outcome, attempts) == outcome # "FILLED" /\ attempts < MaxAttempts

ShouldRetry(outcome, attempts) == outcome = "SUBMIT_ERROR" /\ attempts < MaxAttempts

DependencyFailed(r, i) == r.orders[i].dep # 0 /\ r.state[r.orders[i].dep] # "FILLED"

\* The venue's account after a fill.
ApplyFill(bal, o) ==
    LET cost == o.amount * o.limit_price
    IN  [a \in DOMAIN bal |->
            IF a = o.asset
            THEN (IF o.side = "SELL" THEN bal[a] - o.amount ELSE bal[a] + o.amount)
            ELSE IF a = Quote
            THEN (IF o.side = "SELL" THEN bal[a] + cost - Fee(o) ELSE bal[a] - cost - Fee(o))
            ELSE bal[a]]

\* One step of the submission loop: the next order that has no terminal
\* state is either skipped because the sell it depends on did not fill, or
\* submitted once, and the venue answers.
ExecutorStep(p) ==
    /\ pc[p] = "submit"
    /\ LET r == res[p]
           i == CHOOSE j \in DOMAIN r.orders :
                    /\ r.state[j] \notin Terminal
                    /\ \A k \in 1 .. (j - 1) : r.state[k] \in Terminal
           last(st) == \A j \in DOMAIN r.orders : j # i => st[j] \in Terminal
       IN  IF DependencyFailed(r, i)
           THEN /\ res' = [res EXCEPT ![p].state[i] = "SUBMIT_ERROR",
                                      ![p].errors = Append(@, i)]
                /\ pc' = [pc EXCEPT ![p] = IF last(r.state) THEN "report" ELSE "submit"]
                /\ UNCHANGED <<venueBal, venueCalls>>
           ELSE \E outcome \in Terminal :
                  LET n == r.attempts[i] + 1
                      retry == ShouldRetry(outcome, n)
                  IN  /\ venueCalls' = [venueCalls EXCEPT ![p].submit = @ + 1]
                      /\ venueBal' = [venueBal EXCEPT ![p] =
                                         IF outcome = "FILLED"
                                         THEN ApplyFill(@, r.orders[i]) ELSE @]
                      /\ res' = [res EXCEPT
                                    ![p].attempts[i] = n,
                                    ![p].answer[i] = outcome,
                                    ![p].state[i] = IF retry THEN "SUBMITTING" ELSE outcome,
                                    ![p].success = IF outcome = "FILLED"
                                                   THEN Append(@, i) ELSE @,
                                    ![p].errors = IF outcome # "FILLED" /\ ~retry
                                                  THEN Append(@, i) ELSE @]
                      /\ pc' = [pc EXCEPT ![p] =
                                    IF ~retry /\ last(r.state) THEN "report" ELSE "submit"]
    /\ UNCHANGED <<poolvars, alive, exc, connected, venueOpen, portfolio, log>>

(***************************************************************************)
(* Lines 71-123: the driver reports the result.                            *)
(***************************************************************************)
\* Mutant: the test of line 79 with its first negation dropped.
NoBalancingNeededInverted(P, force) == NeedsBalancing(P) /\ ~force

NoBalancingNeeded(P, force) == ~NeedsBalancing(P) /\ ~force

\* Mutant: the success and errors lists are reported whatever trade is.
OrderLinesAlwaysLive(trade, r) ==
    [k \in DOMAIN r.success |-> Line("Submitted", r.success[k])]
    \o [k \in DOMAIN r.errors |-> Line("Failed", r.errors[k])]

\* Mutant: the loop over res['errors'] is missing.
OrderLinesSuccessOnly(trade, r) ==
    IF trade
    THEN [k \in DOMAIN r.success |-> Line("Submitted", r.success[k])]
    ELSE [k \in DOMAIN r.orders |-> Line("Order", k)]

OrderLines(trade, r) ==
    IF trade
    THEN [k \in DOMAIN r.success |-> Line("Submitted", r.success[k])]
         \o [k \in DOMAIN r.errors |-> Line("Failed", r.errors[k])]
    ELSE [k \in DOMAIN r.orders |-> Line("Order", k)]

ReportLines(P, r, trade, force) ==
    LET errors == <<Line("Balance RMS error", 0),
                    Line("Balance Max error", MaxDevScaled(P))>>
    IN  IF NoBalancingNeeded(P, force)
        THEN errors \o <<Line("No balancing needed", 0)>>
        ELSE errors
             \o <<Line("Balancing needed", IF force THEN 1 ELSE 0),
                  Line("Proposed Portfolio:", 0)>>
             \o (IF r.proposed = None
                 THEN <<Line("Could not calculate a better portfolio", 0)>>
                 ELSE <<Line("Total value", Valuation(r.proposed[1])),
                        Line("Balance RMS error", 0),
                        Line("Balance Max error", MaxDevScaled(r.proposed[1])),
                        Line("Total fees to re-balance", r.total_fee),
                        Line("Orders:", 0)>>
                      \o OrderLines(trade, r))

DriverReport(p) ==
    /\ pc[p] = "report"
    /\ log' = [log EXCEPT ![p] =
                  @ \o ReportLines(portfolio[p][1], res[p], args.trade, args.force)]
    /\ pc' = [pc EXCEPT ![p] = "returned"]
    /\ UNCHANGED <<poolvars, alive, exc, connected, venueBal, venueOpen, venueCalls,
                   portfolio, res>>

Next ==
    \/ CreatePool
    \/ Starmap
    \/ RepopulatePool
    \/ StarmapReturn
    \/ StarmapRaise
    \/ PoolClose
    \/ \E p \in AllSections : StartRun(p)
    \/ \E p \in AllSections : Connect(p)
    \/ \E p \in AllSections : CancelOrders(p)
    \/ \E p \in AllSections : MakePortfolio(p)
    \/ \E p \in AllSections : ExecutorRun(p)
    \/ \E p \in AllSections : ExecutorStep(p)
    \/ \E p \in AllSections : DriverReport(p)

Spec == Init /\ [][Next]_vars

SpecPool == InitPool /\ [][Next]_vars

(***************************************************************************)
(* Properties.                                                             *)
(***************************************************************************)
LogHas(p, msg) == \E k \in DOMAIN log[p] : log[p][k].msg = msg

Logged(p, msg) == {log[p][k].n : k \in {j \in DOMAIN log[p] : log[p][j].msg = msg}}

Count(seq, i) == Cardinality({k \in DOMAIN seq : seq[k] = i})

ParsedTotal(p) == TotalTarget(TargetsDict(config[p].targets))

PlanRequested(p) ==
    /\ res[p].ran
    /\ args.force \/ NeedsBalancing(portfolio[p][1])

VenueUntouched(p) ==
    /\ venueCalls[p].cancel = 0
    /\ venueCalls[p].submit = 0
    /\ venueOpen[p] = config[p].open
    /\ venueBal[p] = config[p].balances

\* C1: in a run with trade = false no order is ever submitted to the venue,
\* every order stays PROPOSED, nothing is recorded in or reported from the
\* success and errors lists, and once the driver has reached its "Orders:"
\* section it has reported exactly the proposed order list.
C1_DryRunNeverSubmits ==
    ~args.trade =>
        \A p \in AllSections :
            /\ venueCalls[p].submit = 0
            /\ \A i \in DOMAIN res[p].state : res[p].state[i] = "PROPOSED"
            /\ res[p].success = <<>> /\ res[p].errors = <<>>
            /\ ~LogHas(p, "Submitted") /\ ~LogHas(p, "Failed")
            /\ LogHas(p, "Orders:") => Logged(p, "Order") = DOMAIN res[p].orders

C1_Witness ==
    /\ ~args.trade
    /\ \E p \in AllSections :
          /\ pc[p] = "returned"
          /\ Len(res[p].orders) >= 2
          /\ Logged(p, "Order") = DOMAIN res[p].orders

\* C2: in a run with trade = false no state-changing venue operation is
\* performed, neither a submission nor a cancellation, so the venue's open
\* orders and balances are what they were before the run.
C2_DryRunLeavesVenueAlone ==
    ~args.trade => \A p \in AllSections : VenueUntouched(p)

\* C3: a portfolio whose parsed target percentages do not sum to 100 ends
\* its run before the venue is contacted: no exchange object, no cancel, no
\* snapshot of balances and prices, no plan and no submission, whatever
\* trade, force and cancel are.
C3_BadTotalNeverContactsVenue ==
    \A p \in AllSections :
        (TargetsValid(config[p].targets) /\ ParsedTotal(p) # 100) =>
            /\ ~connected[p]
            /\ VenueUntouched(p)
            /\ portfolio[p] = None
            /\ ~res[p].ran
            /\ pc[p] \in {"idle", "queued", "returned"}

C3_Witness ==
    \E p \in AllSections :
        /\ TargetsValid(config[p].targets) /\ ParsedTotal(p) = 99
        /\ args.trade /\ args.force /\ args.cancel
        /\ pc[p] = "returned"
        /\ LogHas(p, "Total target needs to equal 100")

\* C4 as stated: for every max_orders value the driver passes, the plan
\* holds at most max_orders orders and success plus errors never exceeds
\* max_orders.
C4_PlanWithinAnyMaxOrders ==
    \A p \in AllSections :
        PlanRequested(p) =>
            /\ Len(res[p].orders) <= IntOf(args.max_orders)
            /\ Len(res[p].success) + Len(res[p].errors) <= IntOf(args.max_orders)

\* C4 as amended: for every max_orders >= 0 the driver passes, the plan
\* holds at most max_orders orders, at most max_orders orders are handed to
\* the venue, and success plus errors never exceeds max_orders.
C4_PlanWithinMaxOrders ==
    \A p \in AllSections :
        (PlanRequested(p) /\ IntOf(args.max_orders) >= 0) =>
            /\ Len(res[p].orders) <= IntOf(args.max_orders)
            /\ Cardinality({i \in DOMAIN res[p].attempts : res[p].attempts[i] > 0})
                   <= IntOf(args.max_orders)
            /\ Len(res[p].success) + Len(res[p].errors) <= IntOf(args.max_orders)

C4_Witness ==
    \E p \in AllSections :
        /\ config[p] = ThreeOrders
        /\ args.trade
        /\ IntOf(args.max_orders) = 2
        /\ pc[p] = "returned"
        /\ Len(res[p].success) + Len(res[p].errors) = 2

\* C5: a portfolio whose maximum deviation does not exceed its threshold is
\* left untouched unless force is set: the executor returns no proposed
\* portfolio and no orders, nothing is submitted even with trade = true,
\* and the driver's last word is "No balancing needed".  With force set the
\* plan of the planner is what the executor returns, and the driver goes on
\* to "Balancing needed".
C5_WithinThresholdUntouched ==
    \A p \in AllSections :
        (portfolio[p] # None /\ ~NeedsBalancing(portfolio[p][1])) =>
            LET P == portfolio[p][1]
                plan == Plan(P, IntOf(args.max_orders), args.mode, 0)
            IN  IF ~args.force
                THEN /\ res[p].proposed = None /\ res[p].orders = <<>>
                     /\ venueCalls[p].submit = 0
                     /\ venueBal[p] = config[p].balances
                     /\ ~LogHas(p, "Balancing needed")
                     /\ pc[p] = "returned" =>
                            log[p][Len(log[p])].msg = "No balancing needed"
                ELSE /\ res[p].ran =>
                            /\ res[p].orders = plan.orders
                            /\ res[p].proposed = plan.proposed
                     /\ ~LogHas(p, "No balancing needed")
                     /\ pc[p] = "returned" => LogHas(p, "Balancing needed")

C5_Witness ==
    \E p \in AllSections :
        /\ config[p] = AtThreshold
        /\ args.trade /\ ~args.force
        /\ pc[p] = "returned"
        /\ log[p][Len(log[p])].msg = "No balancing needed"

\* C6 as stated: an order the venue answered with REJECTED has exactly one
\* submission attempt, is in a terminal state and is recorded in errors.
C6_RejectedHasOneAttempt ==
    \A p \in AllSections :
        \A i \in DOMAIN res[p].state :
            res[p].answer[i] = "REJECTED" =>
                /\ res[p].state[i] = "REJECTED"
                /\ res[p].attempts[i] = 1
                /\ Count(res[p].errors, i) = 1

\* C6 as amended: an order the venue answered with REJECTED is never
\* submitted again: REJECTED is terminal, the order is recorded in errors
\* once and not in success, and its attempt count is 1 when REJECTED was the
\* venue's first answer.  Only a SUBMIT_ERROR answer leads back to
\* SUBMITTING, and the attempt count never exceeds the attempt bound.
C6_RejectedNeverRetried ==
    [][\A p \in AllSections :
          \A i \in DOMAIN res[p].state \cap DOMAIN res'[p].state :
              /\ res[p].answer[i] = "REJECTED" =>
                    /\ res'[p].state[i] = "REJECTED"
                    /\ res'[p].attempts[i] = res[p].attempts[i]
              /\ res'[p].answer[i] = "REJECTED" =>
                    /\ res'[p].state[i] = "REJECTED"
                    /\ Count(res'[p].errors, i) = 1
                    /\ Count(res'[p].success, i) = 0
                    /\ res[p].state[i] = "PROPOSED" => res'[p].attempts[i] = 1
              /\ res'[p].state[i] = "SUBMITTING" =>
                    /\ res'[p].answer[i] = "SUBMIT_ERROR"
                    /\ res'[p].attempts[i] < MaxAttempts
              /\ res'[p].attempts[i] <= MaxAttempts]_vars

C6_Witness ==
    \E p \in AllSections :
        \E i, j \in DOMAIN res[p].state :
            /\ res[p].state[i] = "REJECTED" /\ res[p].attempts[i] = 1
            /\ res[p].state[j] = "REJECTED" /\ res[p].attempts[j] = 2
            /\ Count(res[p].errors, i) = 1 /\ Count(res[p].errors, j) = 1
            /\ pc[p] = "returned"

\* C7: when the cancel pre-pass is requested and the venue fails to cancel,
\* the run is not aborted by that failure; and a requested cancel pre-pass
\* has happened by the time balances are read.
C7_CancelFailureDoesNotAbort ==
    \A p \in AllSections :
        /\ ~(pc[p] = "raised" /\ exc[p] = "CancelFailed")
        /\ (args.cancel /\ portfolio[p] # None) => venueCalls[p].cancel = 1

\* C8: a portfolio's failure (sys.exit on a bad targets format, a return on
\* a bad total, an exception raised inside its run) leaves every other
\* portfolio's run able to start, and the fan-out able to finish: the main
\* process has finished or something can still happen.
Blocked(q) ==
    /\ pc[q] = "queued"
    /\ ~FirstInChunk(q)
    /\ ChunkFailed(ChunkOf(q)) \/ ChunkLost(ChunkOf(q))

C8_FailureIsolated ==
    /\ \A q \in AllSections : ~Blocked(q)
    /\ mainpc \in {"done", "raised"} \/ ENABLED Next

\* C9: in a live run every order that reached a terminal state is in exactly
\* one of success and errors, no attempted order is left without a terminal
\* state once the executor has returned, a run never ends in an exception
\* or an early return after an order ended in error, and every order in
\* errors has been reported as Failed when the run ends.
C9_FailedOrdersReported ==
    args.trade =>
        \A p \in AllSections :
            /\ \A i \in DOMAIN res[p].state :
                  /\ res[p].state[i] \in Terminal =>
                        Count(res[p].success, i) + Count(res[p].errors, i) = 1
                  /\ res[p].state[i] \in {"REJECTED", "SUBMIT_ERROR"} =>
                        Count(res[p].errors, i) = 1
                  /\ (pc[p] \in {"report", "returned"} /\ res[p].attempts[i] > 0) =>
                        res[p].state[i] \in Terminal
            /\ res[p].errors # <<>> =>
                  /\ pc[p] \in {"submit", "report", "returned"}
                  /\ ~LogHas(p, "No balancing needed")
                  /\ ~LogHas(p, "Could not calculate a better portfolio")
            /\ pc[p] = "returned" =>
                  /\ \A k \in DOMAIN res[p].errors : res[p].errors[k] \in Logged(p, "Failed")
                  /\ \A k \in DOMAIN res[p].success :
                        res[p].success[k] \in Logged(p, "Submitted")

C9_Witness ==
    /\ args.trade
    /\ \E p \in AllSections :
          /\ pc[p] = "returned"
          /\ \E i, j \in DOMAIN res[p].state :
                /\ res[p].state[i] = "REJECTED"
                /\ res[p].state[j] = "SUBMIT_ERROR"
                /\ {i, j} \subseteq Logged(p, "Failed")
          /\ res[p].success # <<>>

\* C10: a configured portfolio that --portfolio does not select is never
\* connected to, has no open order cancelled and no order submitted.
C10_OnlySelectedBalanced ==
    \A p \in AllSections \ args.portfolio :
        /\ ~connected[p]
        /\ VenueUntouched(p)
        /\ pc[p] = "idle"

=============================================================================
